---- MODULE Spec2Model ----
(***************************************************************************)
(* Model of the enforce-hsts add-on's Enforcer (lib/enforcer.js): the      *)
(* persisted user policy list (storage.enforceHosts), the two caches of    *)
(* the site security service (persistent and private), the status         *)
(* resolver and the operations that change enforcement state.              *)
(*                                                                         *)
(* A host is a sequence of labels, "s.p.test" being <<"s","p","test">>.    *)
(***************************************************************************)
EXTENDS Naturals, Sequences, FiniteSets

\* store: storage.enforceHosts; sss: the caches of the site security service;
\* last: the latest call; hist: the names of the calls made so far; nops: their
\* number; ui: what IdentityPopupIntegration.init() has set up.
VARIABLES store, sss, last, hist, nops, ui

vars == <<store, sss, last, hist, nops, ui>>

\* Number of Enforcer calls in one run of the model.
MaxOps == 3

(***************************************************************************)
(* Hosts                                                                   *)
(***************************************************************************)
\* The public suffix list seen by the effective TLD service.
PublicSuffixes == {<<"test">>}

\* The names every JavaScript object inherits from Object.prototype.
ObjectPrototypeNames ==
    {"constructor", "toString", "toLocaleString", "valueOf", "hasOwnProperty",
     "isPrototypeOf", "propertyIsEnumerable", "__proto__",
     "__defineGetter__", "__defineSetter__", "__lookupGetter__",
     "__lookupSetter__"}

\* The host whose name is the accessor of an object's prototype: assigning
\* an object to enforceHosts["__proto__"] replaces the prototype of the
\* list, assigning anything else does nothing, and delete does nothing.
ProtoHost == <<"__proto__">>

\* The host named like the one property of an entry object.
IncludeSubdomainsHost == <<"includeSubdomains">>

\* The hosts the operations are called with: a public suffix, a registrable
\* domain below it, two levels of subdomains, and a one-label host whose
\* name is one of ObjectPrototypeNames.
Hosts == {<<"test">>, <<"p", "test">>, <<"s", "p", "test">>,
          <<"x", "s", "p", "test">>, <<"constructor">>}

\* The value getEnforcingParentHost returns when nothing is found.
null == <<>>

LastLabels(host, n) == SubSeq(host, Len(host) - n + 1, Len(host))

\* g is host with one or more leading labels removed.
IsProperSuffix(g, host) ==
    /\ Len(g) >= 1
    /\ Len(g) < Len(host)
    /\ LastLabels(host, Len(g)) = g

SetMax(S) == CHOOSE n \in S : \A m \in S : m <= n

\* Number of labels of the public suffix of host; a host matching no rule
\* has a one-label suffix.
eTLDLength(host) ==
    LET ns == {n \in 1..Len(host) : LastLabels(host, n) \in PublicSuffixes}
    IN  IF ns = {} THEN 1 ELSE SetMax(ns)

NS_ERROR_INSUFFICIENT_DOMAIN_LEVELS == "NS_ERROR_INSUFFICIENT_DOMAIN_LEVELS"

NS_ERROR_HOST_IS_IP_ADDRESS == "NS_ERROR_HOST_IS_IP_ADDRESS"

\* Labels made of digits.
NumericLabels == {"0", "1", "10"}

\* A numeric IPv4 address, "10.0.0.1" being <<"10","0","0","1">>.
isIPAddress(host) ==
    /\ Len(host) = 4
    /\ \A k \in 1..4 : host[k] \in NumericLabels

\* nsIEffectiveTLDService.getBaseDomainFromHost(host, additionalParts): the
\* public suffix plus 1 + additionalParts labels; it throws
\* NS_ERROR_INSUFFICIENT_DOMAIN_LEVELS when host has fewer labels, and
\* NS_ERROR_HOST_IS_IP_ADDRESS for a numeric address.
getBaseDomainFromHost(host, additionalParts) ==
    LET n == eTLDLength(host) + 1 + additionalParts
    IN  IF isIPAddress(host)
        THEN [throws |-> TRUE, error |-> NS_ERROR_HOST_IS_IP_ADDRESS,
              domain |-> null]
        ELSE IF n > Len(host)
        THEN [throws |-> TRUE, error |-> NS_ERROR_INSUFFICIENT_DOMAIN_LEVELS,
              domain |-> null]
        ELSE [throws |-> FALSE, error |-> "", domain |-> LastLabels(host, n)]

(***************************************************************************)
(* Enforcer.getURI                                                         *)
(***************************************************************************)
\* Labels whose text begins with the letters "http".
HttpLabels == {"http", "https", "httpbin"}

startsWithHttp(host) == Head(host) \in HttpLabels

\* The labels of the model that have capital letters, each with the form the
\* IO service gives it: the host of a URI is in lower case.
LowerCaseForms ==
    {<<"includeSubdomains", "includesubdomains">>,
     <<"toString", "tostring">>,
     <<"toLocaleString", "tolocalestring">>,
     <<"valueOf", "valueof">>,
     <<"hasOwnProperty", "hasownproperty">>,
     <<"isPrototypeOf", "isprototypeof">>,
     <<"propertyIsEnumerable", "propertyisenumerable">>,
     <<"__defineGetter__", "__definegetter__">>,
     <<"__defineSetter__", "__definesetter__">>,
     <<"__lookupGetter__", "__lookupgetter__">>,
     <<"__lookupSetter__", "__lookupsetter__">>}

toLowerCase(label) ==
    IF \E f \in LowerCaseForms : f[1] = label
    THEN (CHOOSE f \in LowerCaseForms : f[1] = label)[2]
    ELSE label

\* The host of the URI that newURI makes of "http://<host>/".
uriHost(host) == [k \in 1..Len(host) |-> toLowerCase(host[k])]

\* The error of the IO service for a string it cannot make a URI of.
NS_ERROR_MALFORMED_URI == "NS_ERROR_MALFORMED_URI"

\* A host that does not start with "http" is wrapped as http://<host>/; any
\* other string is handed to the IO service as it is, which rejects a string
\* without a scheme.
getURI(host) ==
    IF ~startsWithHttp(host)
    THEN [malformed |-> FALSE, scheme |-> "http", host |-> uriHost(host)]
    ELSE [malformed |-> TRUE, scheme |-> "", host |-> null]

(***************************************************************************)
(* nsISiteSecurityService: one cache per storage kind, each a map from     *)
(* host to its HSTS state.                                                 *)
(***************************************************************************)
EmptyCache == [h \in {} |-> [includeSubdomains |-> FALSE]]

hasDirective(value, d) == \E k \in 1..Len(value) : value[k] = d

\* unsafeProcessHeader: a header with a max-age directive sets the state of
\* the URI's host, with the includeSubdomains flag the header carries.
processHeader(cache, uri, value) ==
    IF hasDirective(value, "max-age=31556900")
    THEN [h \in DOMAIN cache \cup {uri.host} |->
            IF h = uri.host
            THEN [includeSubdomains |-> hasDirective(value, "includeSubDomains")]
            ELSE cache[h]]
    ELSE cache

\* removeState: forgets the state of the URI's host.
removeState(cache, uri) ==
    [h \in DOMAIN cache \ {uri.host} |-> cache[h]]

\* isSecureURI: the host has a state of its own, or a state of one of its
\* parent domains includes subdomains.
isSecureURI(cache, uri) ==
    \/ uri.host \in DOMAIN cache
    \/ \E g \in DOMAIN cache :
          /\ IsProperSuffix(g, uri.host)
          /\ cache[g].includeSubdomains

\* isSecureHost, as the tests query it.
isSecureHost(cache, host) ==
    isSecureURI(cache, [malformed |-> FALSE, scheme |-> "http",
                        host |-> uriHost(host)])

(***************************************************************************)
(* Enforcer                                                                *)
(***************************************************************************)
NOT_ENFORCED == "NOT_ENFORCED"
SITE_ENFORCED == "SITE_ENFORCED"
USER_ENFORCED == "USER_ENFORCED"
USER_ENFORCED_WITH_SUBDOMAINS == "USER_ENFORCED_WITH_SUBDOMAINS"
USER_ENFORCED_PARENT == "USER_ENFORCED_PARENT"

\* The store maps a host to the entry object that storage.enforceHosts[host]
\* yields: the entries the list has as properties of its own and, under
\* ProtoHost, the entry object that has replaced the prototype of the list.
\* The properties of its own:
ownKeys(s) == DOMAIN s \ {ProtoHost}

\* The enumerable properties the list inherits: includeSubdomains, from an
\* entry object that has become its prototype.
inheritedEnumerableKeys(s) ==
    IF ProtoHost \in DOMAIN s THEN {IncludeSubdomainsHost} \ ownKeys(s) ELSE {}

\* storage.enforceHosts[host] !== undefined: the list has an entry of its
\* own for host, or host is a name the list object inherits a property for.
enforceHostsDefined(host) ==
    \/ host \in DOMAIN store
    \/ host \in inheritedEnumerableKeys(store)
    \/ Len(host) = 1 /\ host[1] \in ObjectPrototypeNames

\* storage.enforceHosts[host].includeSubdomains as a condition: an inherited
\* function or boolean has no includeSubdomains.
enforceHostsIncludeSubdomains(host) ==
    host \in DOMAIN store /\ store[host].includeSubdomains

\* The loop of getEnforcingParentHost from index i on.
RECURSIVE parentWalk(_, _)
parentWalk(host, i) ==
    LET r == getBaseDomainFromHost(host, i)
    IN  IF r.throws THEN null
        ELSE IF enforceHostsDefined(r.domain) THEN r.domain
        ELSE parentWalk(host, i + 1)

getEnforcingParentHost(host) == parentWalk(host, 0)

\* The error the effective TLD service throws inside the loop of
\* getEnforcingParentHost from index i on; "" if the loop returns first.
RECURSIVE serviceErrorInWalk(_, _)
serviceErrorInWalk(host, i) ==
    LET r == getBaseDomainFromHost(host, i)
    IN  IF r.throws THEN r.error
        ELSE IF enforceHostsDefined(r.domain) THEN ""
        ELSE serviceErrorInWalk(host, i + 1)

\* The number of getBaseDomainFromHost calls the loop of
\* getEnforcingParentHost makes from index i on.
RECURSIVE lookupsInWalk(_, _)
lookupsInWalk(host, i) ==
    LET r == getBaseDomainFromHost(host, i)
    IN  IF r.throws \/ enforceHostsDefined(r.domain) THEN 1
        ELSE 1 + lookupsInWalk(host, i + 1)

\* The catch clause of the loop: catch (e) { break; } takes every error.
catchClause(error) == TRUE

\* The error that getEnforcingParentHost(host) lets through to its caller;
\* "" if it returns.
raisedByParentWalk(host) ==
    IF serviceErrorInWalk(host, 0) # "" /\ ~catchClause(serviceErrorInWalk(host, 0))
    THEN serviceErrorInWalk(host, 0)
    ELSE ""

\* Faulty variant: the parent check comes before the exact-host check.
getSTSStatusForHost_parentFirst(host) ==
    IF getEnforcingParentHost(host) # null
    THEN USER_ENFORCED_PARENT
    ELSE IF enforceHostsDefined(host)
    THEN IF enforceHostsIncludeSubdomains(host)
         THEN USER_ENFORCED_WITH_SUBDOMAINS
         ELSE USER_ENFORCED
    ELSE IF isSecureURI(sss.persistent, getURI(host))
    THEN SITE_ENFORCED
    ELSE NOT_ENFORCED

getSTSStatusForHost(host) ==
    IF enforceHostsDefined(host)
    THEN IF enforceHostsIncludeSubdomains(host)
         THEN USER_ENFORCED_WITH_SUBDOMAINS
         ELSE USER_ENFORCED
    ELSE IF getEnforcingParentHost(host) # null
    THEN USER_ENFORCED_PARENT
    ELSE IF isSecureURI(sss.persistent, getURI(host))
    THEN SITE_ENFORCED
    ELSE NOT_ENFORCED

\* The header value enableSTSForHost builds, one element per directive.
headerValue(includeSubdomains) ==
    <<"max-age=31556900">> \o
    (IF includeSubdomains THEN <<"includeSubDomains">> ELSE <<>>)

\* Faulty variant: the header is processed for the persistent cache only.
enableSTSForHost_persistentOnly(s, host, includeSubdomains) ==
    [persistent |-> processHeader(s.persistent, getURI(host),
                                  headerValue(includeSubdomains)),
     private    |-> s.private]

\* Faulty variant: a host that already has a state loses it.
enableSTSForHost_toggle(s, host, includeSubdomains) ==
    IF host \in DOMAIN s.persistent
    THEN [persistent |-> removeState(s.persistent, getURI(host)),
          private    |-> removeState(s.private, getURI(host))]
    ELSE [persistent |-> processHeader(s.persistent, getURI(host),
                                       headerValue(includeSubdomains)),
          private    |-> processHeader(s.private, getURI(host),
                                       headerValue(includeSubdomains))]

\* The caches after enableSTSForHost(host, includeSubdomains) on caches s.
enableSTSForHost(s, host, includeSubdomains) ==
    [persistent |-> processHeader(s.persistent, getURI(host),
                                  headerValue(includeSubdomains)),
     private    |-> processHeader(s.private, getURI(host),
                                  headerValue(includeSubdomains))]

\* Faulty variant: the state is removed from the persistent cache only.
disableSTSForHost_persistentOnly(s, host) ==
    [persistent |-> removeState(s.persistent, getURI(host)),
     private    |-> s.private]

\* The caches after disableSTSForHost(host) on caches s.
disableSTSForHost(s, host) ==
    [persistent |-> removeState(s.persistent, getURI(host)),
     private    |-> removeState(s.private, getURI(host))]

\* Faulty variant: the new state is set first and the clearing comes last.
updateSTSForHost_clearLast(s, host, enforce, includeSubdomains) ==
    IF enforce
    THEN disableSTSForHost(enableSTSForHost(s, host, includeSubdomains), host)
    ELSE disableSTSForHost(s, host)

\* Faulty variant: the old state is not cleared.
updateSTSForHost_enableOnly(s, host, enforce, includeSubdomains) ==
    IF enforce
    THEN enableSTSForHost(s, host, includeSubdomains)
    ELSE s

\* The caches after updateSTSForHost(host, enforce, includeSubdomains).
updateSTSForHost(s, host, enforce, includeSubdomains) ==
    IF enforce
    THEN enableSTSForHost(disableSTSForHost(s, host), host, includeSubdomains)
    ELSE disableSTSForHost(s, host)

\* Faulty variant: only a site's own enforcement keeps setSTSForHost from
\* acting.
setAllowed_parentToo(status) ==
    status # SITE_ENFORCED

\* The statuses under which setSTSForHost acts.
setAllowed(status) ==
    status \in {USER_ENFORCED_WITH_SUBDOMAINS, USER_ENFORCED, NOT_ENFORCED}

\* storage.enforceHosts after the storage update of setSTSForHost.
storeAfterSet(host, enforce, includeSubdomains) ==
    IF enforce
    THEN [h \in DOMAIN store \cup {host} |->
            IF h = host THEN [includeSubdomains |-> includeSubdomains]
            ELSE store[h]]
    ELSE [h \in DOMAIN store \ ({host} \cap ownKeys(store)) |-> store[h]]

\* The orders in which a for-in loop may visit the keys in S.
Orders(S) ==
    {o \in [1..Cardinality(S) -> S] : \A h \in S : \E k \in DOMAIN o : o[k] = h}

\* The orders in which for (let host in storage.enforceHosts) may visit the
\* keys: the properties of the list itself and then the inherited ones.
forInOrders(s) ==
    {o \o p : o \in Orders(ownKeys(s)), p \in Orders(inheritedEnumerableKeys(s))}

\* The caches after enableSTSForHost for each key of order, from index k,
\* with the includeSubdomains that the value under the key has.
RECURSIVE replay(_, _, _)
replay(s, order, k) ==
    IF k > Len(order) THEN s
    ELSE replay(enableSTSForHost(s, order[k],
                                 enforceHostsIncludeSubdomains(order[k])),
                order, k + 1)

Call(op, host, enforce, includeSubdomains) ==
    [op |-> op, host |-> host, enforce |-> enforce,
     includeSubdomains |-> includeSubdomains,
     pre |-> IF host = null THEN "" ELSE getSTSStatusForHost(host)]

(***************************************************************************)
(* State machine                                                           *)
(***************************************************************************)
\* The Enforcer on its own, as its tests use it: the popup integration is
\* not initialised.
NoUI == [started |-> FALSE, listening |-> FALSE]

NoCall == [op |-> "init", host |-> null, enforce |-> FALSE,
           includeSubdomains |-> FALSE, pre |-> ""]

\* A fresh profile after Enforcer.init(): ensureSTS has created the empty
\* list, and the site security service has seen no header.
Init ==
    /\ store = EmptyCache
    /\ sss = [persistent |-> EmptyCache, private |-> EmptyCache]
    /\ last = NoCall
    /\ hist = {}
    /\ nops = 0
    /\ ui = NoUI

\* Bookkeeping of a call: it becomes the latest one.
Record(call) ==
    /\ nops < MaxOps
    /\ last' = call
    /\ hist' = hist \cup {call.op}
    /\ nops' = nops + 1
    /\ UNCHANGED ui

SetSTSForHost(host, enforce, includeSubdomains) ==
    /\ Record(Call("setSTSForHost", host, enforce, includeSubdomains))
    /\ IF setAllowed(getSTSStatusForHost(host))
       THEN /\ sss' = updateSTSForHost(sss, host, enforce, includeSubdomains)
            /\ store' = storeAfterSet(host, enforce, includeSubdomains)
       ELSE UNCHANGED <<store, sss>>

\* Faulty variant: the call writes the storage entry as well.
UpdateSTSForHost_writesStore(host, enforce, includeSubdomains) ==
    /\ Record(Call("updateSTSForHost", host, enforce, includeSubdomains))
    /\ sss' = updateSTSForHost(sss, host, enforce, includeSubdomains)
    /\ store' = storeAfterSet(host, enforce, includeSubdomains)

UpdateSTSForHost(host, enforce, includeSubdomains) ==
    /\ Record(Call("updateSTSForHost", host, enforce, includeSubdomains))
    /\ sss' = updateSTSForHost(sss, host, enforce, includeSubdomains)
    /\ UNCHANGED store

EnableSTSForHost(host, includeSubdomains) ==
    /\ Record(Call("enableSTSForHost", host, TRUE, includeSubdomains))
    /\ sss' = enableSTSForHost(sss, host, includeSubdomains)
    /\ UNCHANGED store

DisableSTSForHost(host) ==
    /\ Record(Call("disableSTSForHost", host, FALSE, FALSE))
    /\ sss' = disableSTSForHost(sss, host)
    /\ UNCHANGED store

EnsureSTS ==
    /\ Record(Call("ensureSTS", null, FALSE, FALSE))
    /\ \E order \in forInOrders(store) : sss' = replay(sss, order, 1)
    /\ UNCHANGED store

\* A site answers a request in a normal window with a
\* Strict-Transport-Security header of its own.
SiteSendsHeader(host, includeSubdomains) ==
    /\ Record(Call("siteHeader", host, TRUE, includeSubdomains))
    /\ sss' = [sss EXCEPT !.persistent =
                  processHeader(@, getURI(host), headerValue(includeSubdomains))]
    /\ UNCHANGED store

\* The browser drops the in-memory state kept for private contexts.
ClearPrivateState ==
    /\ Record(Call("clearPrivate", null, FALSE, FALSE))
    /\ sss' = [sss EXCEPT !.private = EmptyCache]
    /\ UNCHANGED store

Next ==
    \/ \E h \in Hosts, e \in BOOLEAN, i \in BOOLEAN : SetSTSForHost(h, e, i)
    \/ \E h \in Hosts, e \in BOOLEAN, i \in BOOLEAN : UpdateSTSForHost(h, e, i)
    \/ \E h \in Hosts, i \in BOOLEAN : EnableSTSForHost(h, i)
    \/ \E h \in Hosts : DisableSTSForHost(h)
    \/ EnsureSTS
    \/ \E h \in Hosts, i \in BOOLEAN : SiteSendsHeader(h, i)
    \/ ClearPrivateState

Spec == Init /\ [][Next]_vars

\* The same Enforcer called with the host "__proto__", the host
\* "includeSubdomains" and a registrable domain.
ProtoHosts == {ProtoHost, IncludeSubdomainsHost, <<"p", "test">>}

NextProto ==
    \/ \E h \in ProtoHosts, e \in BOOLEAN, i \in BOOLEAN :
          SetSTSForHost(h, e, i)
    \/ EnsureSTS
    \/ ClearPrivateState

SpecProto == Init /\ [][NextProto]_vars

(***************************************************************************)
(* The earlier Enforcer, without a subdomains flag: storage.enforceHosts   *)
(* maps a host to true, and toggleSTSEnforcingForHost switches one host.   *)
(***************************************************************************)
\* The loop of the earlier getSTSStatusForHost from index i on: is there a
\* base domain of host that the store maps to true?
RECURSIVE legacy_parentWalk(_, _)
legacy_parentWalk(host, i) ==
    LET r == getBaseDomainFromHost(host, i)
    IN  IF r.throws THEN FALSE
        ELSE IF r.domain \in DOMAIN store /\ store[r.domain] = TRUE THEN TRUE
        ELSE legacy_parentWalk(host, i + 1)

\* The earlier getSTSStatusForHost(host): the status it returns, or the
\* error it ends with.  getURI is called only after the store and the
\* parents have been looked at.
legacy_getSTSStatusForHost(host) ==
    IF host \in DOMAIN store /\ store[host] = TRUE
    THEN [raised |-> "", status |-> USER_ENFORCED]
    ELSE IF legacy_parentWalk(host, 0)
    THEN [raised |-> "", status |-> USER_ENFORCED_PARENT]
    ELSE IF getURI(host).malformed
    THEN [raised |-> NS_ERROR_MALFORMED_URI, status |-> ""]
    ELSE IF isSecureURI(sss.persistent, getURI(host))
    THEN [raised |-> "", status |-> SITE_ENFORCED]
    ELSE [raised |-> "", status |-> NOT_ENFORCED]

\* The header value of the earlier enableSTSForHost.
legacy_headerValue == <<"max-age=31556900", "includeSubDomains">>

\* The earlier enableSTSForHost(host) on caches s: the error it ends with
\* and the caches it leaves.  getURI comes before the two header calls.
legacy_enableSTSForHost(s, host) ==
    IF getURI(host).malformed
    THEN [raised |-> NS_ERROR_MALFORMED_URI, sss |-> s]
    ELSE [raised |-> "",
          sss |-> [persistent |-> processHeader(s.persistent, getURI(host),
                                                legacy_headerValue),
                   private    |-> processHeader(s.private, getURI(host),
                                                legacy_headerValue)]]

\* The earlier disableSTSForHost(host) on caches s: getURI comes before the
\* two removeState calls.
legacy_disableSTSForHost(s, host) ==
    IF getURI(host).malformed
    THEN [raised |-> NS_ERROR_MALFORMED_URI, sss |-> s]
    ELSE [raised |-> "",
          sss |-> [persistent |-> removeState(s.persistent, getURI(host)),
                   private    |-> removeState(s.private, getURI(host))]]

\* The loop of the earlier ensureSTS, from index k: an error of
\* enableSTSForHost ends the loop and the call.
RECURSIVE legacy_replay(_, _, _)
legacy_replay(s, order, k) ==
    IF k > Len(order) THEN [raised |-> "", sss |-> s]
    ELSE IF legacy_enableSTSForHost(s, order[k]).raised # ""
    THEN legacy_enableSTSForHost(s, order[k])
    ELSE legacy_replay(legacy_enableSTSForHost(s, order[k]).sss, order, k + 1)

\* The store and the caches as a call finds them.
Snapshot == [store |-> store, sss |-> sss]

NoSnapshot ==
    [store |-> EmptyCache,
     sss |-> [persistent |-> EmptyCache, private |-> EmptyCache]]

NoPrior == [host |-> null, pre |-> "", raised |-> "", before |-> NoSnapshot]

\* A call of the earlier Enforcer with the error it ended with; pre is the
\* status of the host on entry, "" where getSTSStatusForHost raises.  A
\* toggle keeps what it found, and what the toggle right before it found.
legacy_Call(op, host, raised) ==
    [op |-> op, host |-> host, raised |-> raised,
     pre |-> IF host = null THEN ""
             ELSE legacy_getSTSStatusForHost(host).status,
     before |-> IF op = "toggleSTSEnforcingForHost" THEN Snapshot
                ELSE NoSnapshot,
     prior |-> IF op = "toggleSTSEnforcingForHost"
                  /\ last.op = "toggleSTSEnforcingForHost"
               THEN [host |-> last.host, pre |-> last.pre,
                     raised |-> last.raised, before |-> last.before]
               ELSE NoPrior]

legacy_NoCall ==
    [op |-> "init", host |-> null, raised |-> "", pre |-> "",
     before |-> NoSnapshot, prior |-> NoPrior]

\* A fresh profile after the earlier Enforcer.init().
legacy_Init ==
    /\ store = EmptyCache
    /\ sss = [persistent |-> EmptyCache, private |-> EmptyCache]
    /\ last = legacy_NoCall
    /\ hist = {}
    /\ nops = 0
    /\ ui = NoUI

\* storage.enforceHosts[host] = true: the host becomes a property of the
\* list; for "__proto__" the assignment of a value that is no object is
\* ignored.
legacy_storeAfterAssign(host) ==
    IF host = ProtoHost THEN store
    ELSE [h \in DOMAIN store \cup {host} |-> IF h = host THEN TRUE ELSE store[h]]

\* The hosts the earlier Enforcer is called with: those of Hosts, the name
\* of the prototype property, and a domain and a subdomain whose names begin
\* with the letters "http".
LegacyHosts ==
    Hosts \cup {ProtoHost, <<"httpbin", "test">>, <<"httpbin", "p", "test">>}

\* toggleSTSEnforcingForHost(host): the status first; an error of
\* getSTSStatusForHost, or of the getURI call that enableSTSForHost and
\* disableSTSForHost begin with, ends the call before the list is changed.
ToggleSTSEnforcingForHost(host) ==
    LET st   == legacy_getSTSStatusForHost(host)
        step == IF st.raised # "" THEN [raised |-> st.raised, sss |-> sss]
                ELSE IF st.status = USER_ENFORCED
                THEN legacy_disableSTSForHost(sss, host)
                ELSE IF st.status = NOT_ENFORCED
                THEN legacy_enableSTSForHost(sss, host)
                ELSE [raised |-> "", sss |-> sss]
    IN  /\ Record(legacy_Call("toggleSTSEnforcingForHost", host, step.raised))
        /\ sss' = step.sss
        /\ store' = IF step.raised # "" THEN store
                    ELSE IF st.status = USER_ENFORCED
                    THEN [h \in DOMAIN store \ {host} |-> store[h]]
                    ELSE IF st.status = NOT_ENFORCED
                    THEN legacy_storeAfterAssign(host)
                    ELSE store

legacy_EnableSTSForHost(host) ==
    /\ Record(legacy_Call("enableSTSForHost", host,
                          legacy_enableSTSForHost(sss, host).raised))
    /\ sss' = legacy_enableSTSForHost(sss, host).sss
    /\ UNCHANGED store

legacy_DisableSTSForHost(host) ==
    /\ Record(legacy_Call("disableSTSForHost", host,
                          legacy_disableSTSForHost(sss, host).raised))
    /\ sss' = legacy_disableSTSForHost(sss, host).sss
    /\ UNCHANGED store

legacy_EnsureSTS ==
    \E order \in Orders(DOMAIN store) :
        /\ Record(legacy_Call("ensureSTS", null,
                              legacy_replay(sss, order, 1).raised))
        /\ sss' = legacy_replay(sss, order, 1).sss
        /\ UNCHANGED store

\* The URI of a page of the site itself, as the browser has it.
siteURI(host) == [malformed |-> FALSE, scheme |-> "https", host |-> uriHost(host)]

\* A site answers a request with a Strict-Transport-Security header of its
\* own, in a normal window (persistent cache) or in a private one.
legacy_SiteSendsHeader(kind, host, includeSubdomains) ==
    /\ Record(legacy_Call("siteHeader", host, ""))
    /\ sss' = [sss EXCEPT ![kind] =
                  processHeader(@, siteURI(host), headerValue(includeSubdomains))]
    /\ UNCHANGED store

legacy_ClearPrivateState ==
    /\ Record(legacy_Call("clearPrivate", null, ""))
    /\ sss' = [sss EXCEPT !.private = EmptyCache]
    /\ UNCHANGED store

NextLegacy ==
    \/ \E h \in LegacyHosts : ToggleSTSEnforcingForHost(h)
    \/ \E h \in LegacyHosts : legacy_EnableSTSForHost(h)
    \/ \E h \in LegacyHosts : legacy_DisableSTSForHost(h)
    \/ legacy_EnsureSTS
    \/ \E k \in {"persistent", "private"}, h \in LegacyHosts, i \in BOOLEAN :
          legacy_SiteSendsHeader(k, h, i)
    \/ legacy_ClearPrivateState

SpecLegacy == legacy_Init /\ [][NextLegacy]_vars

(***************************************************************************)
(* Start of the add-on and the windows of the browser (index.js,           *)
(* lib/identity-popup-integration.js).                                     *)
(***************************************************************************)
\* Number of windows that are open when the add-on starts.
MaxExisting == 2

\* A window as popupFor sees it: without a DOM window, without a document,
\* with a document that has no #identity-popup, or a browser window, which
\* has one.
WindowKinds == {"noView", "noDocument", "noPopup", "browser"}

\* popupFor(window): an object for the three cases it handles; for a window
\* that has the popup the function ends without a return statement.
popupFor(window) ==
    IF window = "noView" \/ window = "noDocument"
    THEN [undefined |-> FALSE, popup |-> FALSE, doc |-> FALSE]
    ELSE IF window = "noPopup"
    THEN [undefined |-> FALSE, popup |-> FALSE, doc |-> TRUE]
    ELSE [undefined |-> TRUE, popup |-> FALSE, doc |-> FALSE]

\* _attachIdentityPopup(window) throws a TypeError when it destructures an
\* undefined result of popupFor.
attachThrows(window) == popupFor(window).undefined

\* The loop of IdentityPopupIntegration.init over the open windows comes to
\* its end, so that the "open" listener is registered after it.
initRegistersListener(existing) ==
    \A k \in 1..Len(existing) : ~attachThrows(existing[k])

\* The stores an earlier session can have left in the profile.
StoredProfiles ==
    UNION {[S -> {[includeSubdomains |-> FALSE], [includeSubdomains |-> TRUE]}] :
           S \in SUBSET Hosts}

ExistingWindows ==
    UNION {[1..n -> WindowKinds] : n \in 0..MaxExisting}

windows_Call(op, private, threw) ==
    [op |-> op, private |-> private, threw |-> threw]

\* The add-on is about to start in a profile with a store of an earlier
\* session; the site security service holds no state (the private cache
\* is in-memory, and the site data was cleared).
windows_Init ==
    /\ store \in StoredProfiles
    /\ sss = [persistent |-> EmptyCache, private |-> EmptyCache]
    /\ last = windows_Call("init", FALSE, FALSE)
    /\ hist = {}
    /\ nops = 0
    /\ ui = NoUI

windows_Record(call) ==
    /\ nops < MaxOps
    /\ last' = call
    /\ hist' = hist \cup {call.op}
    /\ nops' = nops + 1

\* index.js: Enforcer.init(), then IdentityPopupIntegration.init() with the
\* windows that are open.
Startup(existing) ==
    /\ ~ui.started
    /\ windows_Record(windows_Call("startup", FALSE,
                                   ~initRegistersListener(existing)))
    /\ \E order \in forInOrders(store) : sss' = replay(sss, order, 1)
    /\ ui' = [started |-> TRUE, listening |-> initRegistersListener(existing)]
    /\ UNCHANGED store

\* The browser opens a window: the "open" listener, if there is one, calls
\* ensureSTS for a private window and then _attachIdentityPopup.
WindowOpened(window, private) ==
    /\ ui.started
    /\ windows_Record(windows_Call("windowOpened", private,
                                   ui.listening /\ attachThrows(window)))
    /\ IF ui.listening /\ private
       THEN \E order \in forInOrders(store) : sss' = replay(sss, order, 1)
       ELSE UNCHANGED sss
    /\ UNCHANGED <<store, ui>>

windows_ClearPrivateState ==
    /\ ui.started
    /\ windows_Record(windows_Call("clearPrivate", FALSE, FALSE))
    /\ sss' = [sss EXCEPT !.private = EmptyCache]
    /\ UNCHANGED <<store, ui>>

NextWindows ==
    \/ \E existing \in ExistingWindows : Startup(existing)
    \/ \E w \in WindowKinds, p \in BOOLEAN : WindowOpened(w, p)
    \/ windows_ClearPrivateState

SpecWindows == windows_Init /\ [][NextWindows]_vars

(***************************************************************************)
(* Errors of the collaborators: an error of the effective TLD service      *)
(* inside getEnforcingParentHost, and a call of the site security service  *)
(* that throws in the middle of updateSTSForHost.                          *)
(***************************************************************************)
\* The hosts getEnforcingParentHost is asked about: those of the
\* operations and a numeric address.
ProbeHosts == Hosts \cup {<<"10", "0", "0", "1">>}

\* The calls updateSTSForHost makes on the site security service, in order:
\* removeState for the persistent and for the private cache, then
\* unsafeProcessHeader for the persistent and for the private cache.
BackendCalls == 1..4

\* The caches when the call number failAt throws: the calls before it have
\* been made, no call after it is.
updateSTSForHostUntil(s, host, enforce, includeSubdomains, failAt) ==
    LET s1 == [s EXCEPT !.persistent = removeState(@, getURI(host))]
        s2 == [s1 EXCEPT !.private = removeState(@, getURI(host))]
        s3 == [s2 EXCEPT !.persistent =
                   processHeader(@, getURI(host), headerValue(includeSubdomains))]
    IN  IF failAt = 1 THEN s
        ELSE IF failAt = 2 THEN s1
        ELSE IF failAt = 3 THEN s2
        ELSE s3

\* The calls that updateSTSForHost(host, enforce, ...) makes at all.
callsMade(enforce) == IF enforce THEN 1..4 ELSE 1..2

\* Both caches enforce host if the store has an entry for it.
StoreAndBackendAgreeOn(host) ==
    host \in DOMAIN store =>
        /\ isSecureHost(sss.persistent, host)
        /\ isSecureHost(sss.private, host)

fault_Call(op, host, enforce, includeSubdomains, serviceError, raised) ==
    [op |-> op, host |-> host, enforce |-> enforce,
     includeSubdomains |-> includeSubdomains,
     pre |-> getSTSStatusForHost(host),
     agreed |-> StoreAndBackendAgreeOn(host),
     serviceError |-> serviceError, raised |-> raised]

\* getEnforcingParentHost(host), with the error of the service and the
\* error that reaches the caller.
GetEnforcingParentHost(host) ==
    /\ Record(fault_Call("getEnforcingParentHost", host, FALSE, FALSE,
                         serviceErrorInWalk(host, 0), raisedByParentWalk(host)))
    /\ UNCHANGED <<store, sss>>

\* setSTSForHost in which the backend call number failAt throws: the error
\* leaves updateSTSForHost and setSTSForHost before the storage is written.
SetSTSForHostFails(host, enforce, includeSubdomains, failAt) ==
    /\ setAllowed(getSTSStatusForHost(host))
    /\ failAt \in callsMade(enforce)
    /\ Record(fault_Call("setSTSForHost fails", host, enforce,
                         includeSubdomains, "", "backend"))
    /\ sss' = updateSTSForHostUntil(sss, host, enforce, includeSubdomains, failAt)
    /\ UNCHANGED store

UpdateSTSForHostFails(host, enforce, includeSubdomains, failAt) ==
    /\ failAt \in callsMade(enforce)
    /\ Record(fault_Call("updateSTSForHost fails", host, enforce,
                         includeSubdomains, "", "backend"))
    /\ sss' = updateSTSForHostUntil(sss, host, enforce, includeSubdomains, failAt)
    /\ UNCHANGED store

NextFaults ==
    \/ \E h \in Hosts, e \in BOOLEAN, i \in BOOLEAN : SetSTSForHost(h, e, i)
    \/ \E h \in ProbeHosts : GetEnforcingParentHost(h)
    \/ \E h \in Hosts, e \in BOOLEAN, i \in BOOLEAN, k \in BackendCalls :
          SetSTSForHostFails(h, e, i, k)
    \/ \E h \in Hosts, e \in BOOLEAN, i \in BOOLEAN, k \in BackendCalls :
          UpdateSTSForHostFails(h, e, i, k)

SpecFaults == Init /\ [][NextFaults]_vars

(***************************************************************************)
(* Hosts that getURI cannot turn into a URI: the operations stop with the  *)
(* error of the IO service at their first getURI call.                     *)
(***************************************************************************)
\* A registrable domain, and a domain and a subdomain whose names begin with
\* the letters "http".
URIHosts == {<<"p", "test">>, <<"httpbin", "test">>, <<"httpbin", "p", "test">>}

\* getSTSStatusForHost(host) with the error it may end with: getURI is
\* called only after the store and the parents have been looked at.
statusOutcome(host) ==
    IF enforceHostsDefined(host) \/ getEnforcingParentHost(host) # null
    THEN [raised |-> "", status |-> getSTSStatusForHost(host)]
    ELSE IF getURI(host).malformed
    THEN [raised |-> NS_ERROR_MALFORMED_URI, status |-> ""]
    ELSE [raised |-> "", status |-> getSTSStatusForHost(host)]

uri_Call(op, host, enforce, includeSubdomains, raised, result) ==
    [op |-> op, host |-> host, enforce |-> enforce,
     includeSubdomains |-> includeSubdomains, raised |-> raised,
     result |-> result]

NoResult == [malformed |-> FALSE, scheme |-> "", host |-> null]

uri_GetURI(host) ==
    /\ Record(uri_Call("getURI", host, FALSE, FALSE,
                       IF getURI(host).malformed THEN NS_ERROR_MALFORMED_URI
                       ELSE "",
                       getURI(host)))
    /\ UNCHANGED <<store, sss>>

uri_GetSTSStatusForHost(host) ==
    /\ Record(uri_Call("getSTSStatusForHost", host, FALSE, FALSE,
                       statusOutcome(host).raised, NoResult))
    /\ UNCHANGED <<store, sss>>

\* setSTSForHost(host, enforce, includeSubdomains): the error it ends with,
\* and the list and the caches it leaves.  The status comes first; then
\* updateSTSForHost, whose first statement is the getURI call of
\* disableSTSForHost; then the storage.
setSTSForHostOutcome(host, enforce, includeSubdomains) ==
    LET st == statusOutcome(host)
        acts == st.raised = "" /\ setAllowed(st.status)
        raised == IF st.raised # "" THEN st.raised
                  ELSE IF acts /\ getURI(host).malformed
                  THEN NS_ERROR_MALFORMED_URI
                  ELSE ""
    IN  IF acts /\ raised = ""
        THEN [raised |-> raised,
              sss |-> updateSTSForHost(sss, host, enforce, includeSubdomains),
              store |-> storeAfterSet(host, enforce, includeSubdomains)]
        ELSE [raised |-> raised, sss |-> sss, store |-> store]

uri_SetSTSForHost(host, enforce, includeSubdomains) ==
    /\ Record(uri_Call("setSTSForHost", host, enforce, includeSubdomains,
                       setSTSForHostOutcome(host, enforce,
                                            includeSubdomains).raised,
                       NoResult))
    /\ sss' = setSTSForHostOutcome(host, enforce, includeSubdomains).sss
    /\ store' = setSTSForHostOutcome(host, enforce, includeSubdomains).store

uri_UpdateSTSForHost(host, enforce, includeSubdomains) ==
    /\ Record(uri_Call("updateSTSForHost", host, enforce, includeSubdomains,
                       IF getURI(host).malformed THEN NS_ERROR_MALFORMED_URI
                       ELSE "",
                       NoResult))
    /\ IF getURI(host).malformed
       THEN UNCHANGED sss
       ELSE sss' = updateSTSForHost(sss, host, enforce, includeSubdomains)
    /\ UNCHANGED store

uri_EnableSTSForHost(host, includeSubdomains) ==
    /\ Record(uri_Call("enableSTSForHost", host, TRUE, includeSubdomains,
                       IF getURI(host).malformed THEN NS_ERROR_MALFORMED_URI
                       ELSE "",
                       NoResult))
    /\ IF getURI(host).malformed
       THEN UNCHANGED sss
       ELSE sss' = enableSTSForHost(sss, host, includeSubdomains)
    /\ UNCHANGED store

uri_DisableSTSForHost(host) ==
    /\ Record(uri_Call("disableSTSForHost", host, FALSE, FALSE,
                       IF getURI(host).malformed THEN NS_ERROR_MALFORMED_URI
                       ELSE "",
                       NoResult))
    /\ IF getURI(host).malformed
       THEN UNCHANGED sss
       ELSE sss' = disableSTSForHost(sss, host)
    /\ UNCHANGED store

NextURI ==
    \/ \E h \in URIHosts : uri_GetURI(h)
    \/ \E h \in URIHosts : uri_GetSTSStatusForHost(h)
    \/ \E h \in URIHosts, e \in BOOLEAN, i \in BOOLEAN :
          uri_SetSTSForHost(h, e, i)
    \/ \E h \in URIHosts, e \in BOOLEAN, i \in BOOLEAN :
          uri_UpdateSTSForHost(h, e, i)
    \/ \E h \in URIHosts, i \in BOOLEAN : uri_EnableSTSForHost(h, i)
    \/ \E h \in URIHosts : uri_DisableSTSForHost(h)

SpecURI == Init /\ [][NextURI]_vars

(***************************************************************************)
(* The handlers of the identity popup section                              *)
(* (lib/identity-popup-integration.js): refreshIdentityPopup and           *)
(* updateEnforcementStatus, each applied to the document of the event it   *)
(* is given.  The handlers are registered at lines 131-134, which          *)
(* _attachIdentityPopup reaches for no window (popupFor above); they are   *)
(* modelled as the functions of lines 142-216 on the documents listed in   *)
(* Documents.                                                              *)
(***************************************************************************)
\* Number of handler calls in one run of the model.
MaxEvents == 3

\* The ids _attachIdentityPopup gives to the two checkboxes.
CheckboxIds == {"sts-cb-enforce", "sts-cb-include"}

\* A checkbox as _attachIdentityPopup creates it; disable is a property the
\* element does not have until something assigns it.
NewCheckbox ==
    [checked |-> FALSE, hidden |-> FALSE, disabled |-> FALSE,
     disable |-> "undefined"]

\* checkboxesFor(el): the elements, by id, behind the names enforce and
\* include.
checkboxesFor ==
    [enforce |-> "sts-cb-enforce", include |-> "sts-cb-enforce"]

Schemes == {"http", "https"}

\* _attachIdentityPopup(window) appends the section to the popup (136) when
\* popupFor gave it an object (78) with a document and a popup (80).
attachesSection(window) ==
    /\ ~attachThrows(window)
    /\ popupFor(window).doc
    /\ popupFor(window).popup

\* A document: whether it holds #sts-section with #sts-status and the two
\* checkboxes, whether the section is hidden, and the checkboxes by id.
documentOf(section) ==
    [section |-> section,
     sectionHidden |-> FALSE,
     boxes |-> [id \in (IF section THEN CheckboxIds ELSE {}) |-> NewCheckbox]]

\* The documents the handlers are applied to: the document of each kind of
\* window as _attachIdentityPopup leaves it, none of which holds the
\* section, and a document that holds the section as lines 86-136 build it.
Documents ==
    {documentOf(attachesSection(window)) : window \in WindowKinds}
        \cup {documentOf(TRUE)}

\* In a document without the section getElementById gives null for
\* "sts-section" and "sts-status": checkboxesFor(null) reads
\* null.ownerDocument (146, 170, 276) and line 164 assigns null.hidden, a
\* TypeError on every path of both handlers.
handlerThrows(dom) == ~dom.section

\* The assignments of refreshIdentityPopup that reset the checkboxes, in
\* order: <<name, property, value>>.
resetWrites ==
    << <<"include", "hidden", FALSE>>, <<"enforce", "hidden", FALSE>>,
       <<"include", "disable", FALSE>>, <<"enforce", "disable", FALSE>>,
       <<"include", "checked", FALSE>>, <<"enforce", "checked", FALSE>> >>

\* The assignments of the switch of refreshIdentityPopup.
statusWrites(status) ==
    IF status = USER_ENFORCED
    THEN << <<"enforce", "checked", TRUE>> >>
    ELSE IF status = USER_ENFORCED_WITH_SUBDOMAINS
    THEN << <<"include", "checked", TRUE>>, <<"enforce", "checked", TRUE>> >>
    ELSE IF status = USER_ENFORCED_PARENT
    THEN << <<"include", "disabled", TRUE>>, <<"include", "checked", TRUE>>,
            <<"enforce", "disabled", TRUE>>, <<"enforce", "checked", TRUE>> >>
    ELSE IF status = SITE_ENFORCED
    THEN << <<"include", "hidden", TRUE>>, <<"enforce", "hidden", TRUE>> >>
    ELSE << >>

\* The elements after the assignments from index k on.
RECURSIVE applyWrites(_, _, _)
applyWrites(boxes, writes, k) ==
    IF k > Len(writes) THEN boxes
    ELSE applyWrites(
            [boxes EXCEPT ![checkboxesFor[writes[k][1]]][writes[k][2]] =
                              writes[k][3]],
            writes, k + 1)

\* The document after refreshIdentityPopup for the URI scheme://host with
\* the given status.  A call that ends with the TypeError has assigned
\* nothing; a call in which getSTSStatusForHost raises (status "") has made
\* the assignments that come before the switch.
refreshIdentityPopup(dom, scheme, status) ==
    IF handlerThrows(dom) THEN dom
    ELSE IF scheme # "https"
    THEN [dom EXCEPT !.sectionHidden = TRUE]
    ELSE [dom EXCEPT
            !.sectionHidden = FALSE,
            !.boxes = applyWrites(dom.boxes,
                                  resetWrites \o statusWrites(status), 1)]

popup_Call(op, scheme, host, raised, called, checked, args) ==
    [op |-> op, scheme |-> scheme, host |-> host, raised |-> raised,
     called |-> called, checked |-> checked, args |-> args]

NoChecks == [enforce |-> FALSE, include |-> FALSE]

\* A fresh profile and one of the documents; no handler has been called.
popup_Init ==
    /\ store = EmptyCache
    /\ sss = [persistent |-> EmptyCache, private |-> EmptyCache]
    /\ last = popup_Call("init", "http", null, "", FALSE, NoChecks, NoChecks)
    /\ hist = {}
    /\ nops = 0
    /\ ui \in Documents

popup_Record(call) ==
    /\ nops < MaxEvents
    /\ last' = call
    /\ hist' = hist \cup {call.op}
    /\ nops' = nops + 1

\* The error refreshIdentityPopup ends with: the TypeError of a document
\* without the section or, for an https URI, the error of
\* getSTSStatusForHost in the switch.
refreshRaised(dom, scheme, outcome) ==
    IF handlerThrows(dom) THEN "TypeError"
    ELSE IF scheme # "https" THEN ""
    ELSE outcome.raised

\* The hosts of the tabs: those of Hosts, and a domain and a subdomain whose
\* names begin with the letters "http".
PopupHosts == Hosts \cup {<<"httpbin", "test">>, <<"httpbin", "p", "test">>}

\* refreshIdentityPopup(event) on the document while its tab shows
\* scheme://host.
RefreshIdentityPopup(scheme, host) ==
    /\ popup_Record(popup_Call("refreshIdentityPopup", scheme, host,
                               refreshRaised(ui, scheme, statusOutcome(host)),
                               FALSE, NoChecks, NoChecks))
    /\ ui' = refreshIdentityPopup(ui, scheme, statusOutcome(host).status)
    /\ UNCHANGED <<store, sss>>

\* updateEnforcementStatus(event) on the document while its tab shows
\* scheme://host and its checkboxes sts-cb-enforce and sts-cb-include are
\* checked as checkedEnforce and checkedInclude say: it calls setSTSForHost
\* with what checkboxesFor gives it and then, unless that call raised,
\* refreshIdentityPopup.
UpdateEnforcementStatus(scheme, host, checkedEnforce, checkedInclude) ==
    LET set     == [ui EXCEPT
                      !.boxes["sts-cb-enforce"].checked = checkedEnforce,
                      !.boxes["sts-cb-include"].checked = checkedInclude]
        enforce == set.boxes[checkboxesFor.enforce].checked
        include == set.boxes[checkboxesFor.include].checked
        out     == setSTSForHostOutcome(host, enforce, include)
    IN  IF handlerThrows(ui)
        THEN /\ popup_Record(popup_Call("updateEnforcementStatus", scheme,
                                        host, "TypeError", FALSE, NoChecks,
                                        NoChecks))
             /\ UNCHANGED <<store, sss, ui>>
        ELSE IF out.raised # ""
        THEN /\ popup_Record(popup_Call("updateEnforcementStatus", scheme,
                     host, out.raised, TRUE,
                     [enforce |-> checkedEnforce, include |-> checkedInclude],
                     [enforce |-> enforce, include |-> include]))
             /\ ui' = set
             /\ UNCHANGED <<store, sss>>
        ELSE /\ sss' = out.sss
             /\ store' = out.store
             /\ popup_Record(popup_Call("updateEnforcementStatus", scheme,
                     host, refreshRaised(set, scheme, statusOutcome(host)'),
                     TRUE,
                     [enforce |-> checkedEnforce, include |-> checkedInclude],
                     [enforce |-> enforce, include |-> include]))
             /\ ui' = refreshIdentityPopup(set, scheme,
                                           statusOutcome(host).status')

NextPopup ==
    \/ \E sch \in Schemes, h \in PopupHosts : RefreshIdentityPopup(sch, h)
    \/ \E sch \in Schemes, h \in PopupHosts, e \in BOOLEAN, i \in BOOLEAN :
          UpdateEnforcementStatus(sch, h, e, i)

SpecPopup == popup_Init /\ [][NextPopup]_vars

(***************************************************************************)
(* Properties                                                              *)
(***************************************************************************)
pub == sss.persistent

priv == sss.private

\* A subdomain without any state of its own, as the tests build it:
\* "sub." + host.
subdomainOf(host) == <<"sub">> \o host

\* The proper ancestors of host above its public suffix.
RegistrableAncestors(host) ==
    {g \in Hosts : IsProperSuffix(g, host) /\ Len(g) > eTLDLength(host)}

\* The store entries among all proper ancestors of host.
AncestorEntries(host) == {g \in DOMAIN store : IsProperSuffix(g, host)}

\* The longest host of a non-empty set of ancestors of one host.
Nearest(S) == CHOOSE g \in S : \A f \in S : Len(f) <= Len(g)

PolicyMutatorOps ==
    {"setSTSForHost", "updateSTSForHost", "enableSTSForHost",
     "disableSTSForHost", "ensureSTS"}

\* The backend reports h as enforced, and covers its subdomains if the
\* store entry of h asks for that.
BackendHonours(h) ==
    \A cache \in {pub, priv} :
        /\ isSecureHost(cache, h)
        /\ store[h].includeSubdomains => isSecureHost(cache, subdomainOf(h))

\* C1 as stated: after any sequence of enable, disable, update, set and
\* ensure calls, the backend honours every entry of the store.
C1_AnyMutatorKeepsAgreement ==
    hist \subseteq PolicyMutatorOps =>
        \A h \in ownKeys(store) : BackendHonours(h)

\* C1, amended: after any sequence of setSTSForHost and ensureSTS calls
\* alone, every host with an entry in the store is reported as enforced by
\* both caches of the backend, and its subdomains are covered if the entry
\* has includeSubdomains.
C1_SetAndEnsureKeepAgreement ==
    hist \subseteq {"setSTSForHost", "ensureSTS"} =>
        \A h \in ownKeys(store) : BackendHonours(h)

C1_Witness ==
    /\ hist = {"setSTSForHost", "ensureSTS"}
    /\ \E h \in ownKeys(store) : store[h].includeSubdomains
    /\ \E h \in ownKeys(store) : ~store[h].includeSubdomains

\* What C2 expects of host h after setSTSForHost(h, true, false).
EnforcedWithoutSubdomains(h) ==
    /\ getSTSStatusForHost(h) = USER_ENFORCED
    /\ \A cache \in {pub, priv} :
          /\ isSecureHost(cache, h)
          /\ uriHost(h) \in DOMAIN cache
          /\ ~cache[uriHost(h)].includeSubdomains

\* C2 as stated: after setSTSForHost(h, true, false), for every host h, the
\* status of h is USER_ENFORCED and both caches enforce h without
\* subdomains.
C2_SetEnforcesAnyHost ==
    (last.op = "setSTSForHost" /\ last.enforce /\ ~last.includeSubdomains)
        => EnforcedWithoutSubdomains(last.host)

\* C2, amended: after setSTSForHost(h, true, false) on a host whose status
\* was not SITE_ENFORCED or USER_ENFORCED_PARENT, the status of h is
\* USER_ENFORCED and both caches enforce h with an entry that does not
\* include subdomains.
C2_SetEnforcesUnguardedHost ==
    (/\ last.op = "setSTSForHost"
     /\ last.enforce
     /\ ~last.includeSubdomains
     /\ setAllowed(last.pre))
        => EnforcedWithoutSubdomains(last.host)

C2_Witness ==
    /\ last.op = "setSTSForHost"
    /\ last.enforce
    /\ ~last.includeSubdomains
    /\ last.pre = USER_ENFORCED_WITH_SUBDOMAINS
    /\ getSTSStatusForHost(last.host) = USER_ENFORCED

\* A step that is setSTSForHost(h, false, false) right after
\* setSTSForHost(h, true, true).
SetThenUnset(h) ==
    /\ last.op = "setSTSForHost"
    /\ last.host = h
    /\ last.enforce
    /\ last.includeSubdomains
    /\ last'.op = "setSTSForHost"
    /\ last'.host = h
    /\ ~last'.enforce
    /\ ~last'.includeSubdomains
    /\ nops' = nops + 1

\* C3 as stated: after setSTSForHost(h, true, true) and then
\* setSTSForHost(h, false, false), for every host h, the status of h is
\* NOT_ENFORCED and no cache reports h or any subdomain of h as enforced.
C3_SetThenUnsetAnyHost ==
    [][\A h \in Hosts : SetThenUnset(h) =>
          /\ getSTSStatusForHost(h)' = NOT_ENFORCED
          /\ \A g \in Hosts \cup {subdomainOf(h)} :
                (g = h \/ IsProperSuffix(h, g)) =>
                    /\ ~isSecureHost(pub', g)
                    /\ ~isSecureHost(priv', g)]_vars

\* A state of the cache other than the state of h covers g: a state of g
\* itself, or a state of an ancestor of g that includes subdomains.
CoveredByOther(cache, g, h) ==
    \E a \in DOMAIN cache \ {h} :
        a = g \/ (IsProperSuffix(a, g) /\ cache[a].includeSubdomains)

\* C3, amended: if the status of h was NOT_ENFORCED before
\* setSTSForHost(h, true, true), then after the following
\* setSTSForHost(h, false, false) the status of h is NOT_ENFORCED again,
\* neither cache keeps a state of h, the persistent cache does not report h
\* as enforced, and each cache reports h or a subdomain of h as enforced
\* exactly if a state other than the one h had covers it.
C3_SetThenUnsetFromNotEnforced ==
    [][\A h \in Hosts : (SetThenUnset(h) /\ last.pre = NOT_ENFORCED) =>
          /\ getSTSStatusForHost(h)' = NOT_ENFORCED
          /\ ~isSecureHost(pub', h)
          /\ \A k \in {"persistent", "private"} :
                /\ h \notin DOMAIN sss'[k]
                /\ \A g \in Hosts \cup {subdomainOf(h)} :
                      (g = h \/ IsProperSuffix(h, g)) =>
                          (isSecureHost(sss'[k], g)
                              <=> CoveredByOther(sss[k], g, h))]_vars

\* Three setSTSForHost calls were made; the last two were (h, true, true)
\* and (h, false, false) on a host that was NOT_ENFORCED, and a subdomain
\* of h without an entry of its own is still enforced through the entry of
\* another subdomain, while sub.h is not.
C3_Witness ==
    /\ nops = 3
    /\ hist = {"setSTSForHost"}
    /\ last.op = "setSTSForHost"
    /\ ~last.enforce
    /\ ~last.includeSubdomains
    /\ last.pre = USER_ENFORCED_WITH_SUBDOMAINS
    /\ getSTSStatusForHost(last.host) = NOT_ENFORCED
    /\ ~isSecureHost(pub, subdomainOf(last.host))
    /\ \E g \in Hosts :
          /\ IsProperSuffix(last.host, g)
          /\ g \notin DOMAIN store
          /\ isSecureHost(pub, g)
          /\ isSecureHost(priv, g)

\* C4: a setSTSForHost call on a host whose status is SITE_ENFORCED or
\* USER_ENFORCED_PARENT changes neither the store nor either cache,
\* whatever its enforce and includeSubdomains arguments.
C4_GuardedSetChangesNothing ==
    [][(/\ last'.op = "setSTSForHost"
        /\ nops' = nops + 1
        /\ getSTSStatusForHost(last'.host)
              \in {SITE_ENFORCED, USER_ENFORCED_PARENT})
          => (store' = store /\ sss' = sss)]_vars

C4_Witness ==
    /\ last.op = "setSTSForHost"
    /\ last.pre = USER_ENFORCED_PARENT
    /\ last.enforce
    /\ \E g \in AncestorEntries(last.host) : store[g].includeSubdomains

\* C5: a host with an entry of its own has status USER_ENFORCED or
\* USER_ENFORCED_WITH_SUBDOMAINS according to the entry's flag, whatever the
\* entries of its ancestors and whatever the backend reports.
C5_ExactEntryDecidesStatus ==
    \A h \in DOMAIN store :
        getSTSStatusForHost(h) =
            IF store[h].includeSubdomains
            THEN USER_ENFORCED_WITH_SUBDOMAINS
            ELSE USER_ENFORCED

C5_Witness ==
    \E h \in DOMAIN store :
        /\ ~store[h].includeSubdomains
        /\ \E g \in AncestorEntries(h) : store[g].includeSubdomains
        /\ isSecureHost(pub, h)
        /\ getSTSStatusForHost(h) = USER_ENFORCED

\* C6 as stated: a host without an entry of its own, whose ancestors'
\* entries all have includeSubdomains = false, does not have status
\* USER_ENFORCED_PARENT and has no enforcing parent.
C6_PlainAncestorDoesNotGovern ==
    \A h \in Hosts :
        (/\ h \notin DOMAIN store
         /\ \A g \in AncestorEntries(h) : ~store[g].includeSubdomains)
            => /\ getSTSStatusForHost(h) # USER_ENFORCED_PARENT
               /\ getEnforcingParentHost(h) = null

\* C7 as stated: when several proper ancestors of h have entries, the
\* enforcing parent is the nearest one whose entry has
\* includeSubdomains = true.
C7_NearestEnforcingAncestor ==
    \A h \in Hosts :
        LET A == AncestorEntries(h) \cap RegistrableAncestors(h)
            E == {g \in A : store[g].includeSubdomains}
        IN  (Cardinality(A) >= 2 /\ E # {})
                => getEnforcingParentHost(h) = Nearest(E)

\* C8 as stated: the enforcing parent of h is never h itself; it is none or
\* a proper ancestor of h.
C8_ParentIsNeverSelf ==
    \A h \in Hosts :
        \/ getEnforcingParentHost(h) = null
        \/ IsProperSuffix(getEnforcingParentHost(h), h)

\* C9 as stated: a host h without an entry of its own, below a registrable
\* host a whose entry has includeSubdomains = true (the nearest such one),
\* has status USER_ENFORCED_PARENT and enforcing parent a.
C9_SubdomainGovernedByAncestor ==
    \A h \in Hosts :
        LET E == {g \in AncestorEntries(h) \cap RegistrableAncestors(h) :
                     store[g].includeSubdomains}
        IN  (h \notin DOMAIN store /\ E # {})
                => /\ getSTSStatusForHost(h) = USER_ENFORCED_PARENT
                   /\ getEnforcingParentHost(h) = Nearest(E)

\* C10: a host with no entry of its own and no ancestor entry has status
\* SITE_ENFORCED if the persistent cache reports it as enforced, and
\* NOT_ENFORCED otherwise.
C10_SiteOrNotEnforced ==
    \A h \in Hosts :
        (h \notin DOMAIN store /\ AncestorEntries(h) = {})
            => getSTSStatusForHost(h) =
                  IF isSecureHost(pub, h) THEN SITE_ENFORCED ELSE NOT_ENFORCED

\* The caches after one ensureSTS that visits the store in the given order.
afterEnsure(s, order) == replay(s, order, 1)

\* C11: whatever the store and the caches hold, and whatever the orders of
\* the two loops, a second ensureSTS right after a first one leaves both
\* caches as the first one left them.
C11_EnsureIsIdempotent ==
    \A o1 \in forInOrders(store), o2 \in forInOrders(store) :
        afterEnsure(afterEnsure(sss, o1), o2) = afterEnsure(sss, o1)

\* Two entries in the store, and caches that a first ensureSTS changes.
C11_Witness ==
    /\ Cardinality(DOMAIN store) >= 2
    /\ \E h \in DOMAIN store : h \notin DOMAIN priv
    /\ \A o \in forInOrders(store) : afterEnsure(sss, o) # sss

\* The store has an entry for an ancestor of g that includes subdomains.
CoveredByStore(g) ==
    \E a \in ownKeys(store) : IsProperSuffix(a, g) /\ store[a].includeSubdomains

\* C12: ensureSTS gives the same caches for every order of its loop; in both
\* caches each entry of the store is then enforced and its subdomain is
\* covered exactly if the entry has includeSubdomains, and a host without a
\* store entry and without a store entry of an ancestor that includes
\* subdomains is enforced afterwards only if it was enforced before.
C12_EnsureResultIsOrderFree ==
    \A o \in forInOrders(store) :
        LET r == afterEnsure(sss, o)
        IN  /\ \A o2 \in forInOrders(store) : afterEnsure(sss, o2) = r
            /\ \A k \in {"persistent", "private"} :
                  /\ \A h \in ownKeys(store) :
                        /\ isSecureHost(r[k], h)
                        /\ isSecureHost(r[k], subdomainOf(h))
                              <=> store[h].includeSubdomains
                  /\ \A g \in Hosts \cup ProtoHosts :
                        (g \notin ownKeys(store) /\ ~CoveredByStore(g)
                            /\ isSecureHost(r[k], g))
                        => isSecureHost(sss[k], g)

\* C13: a step of enableSTSForHost, disableSTSForHost, updateSTSForHost or
\* ensureSTS leaves the entries and the flags of the store as they were; a
\* step that changes the store is a setSTSForHost step.
C13_OnlySetChangesStore ==
    [][/\ (nops' = nops + 1
            /\ last'.op \in {"enableSTSForHost", "disableSTSForHost",
                              "updateSTSForHost", "ensureSTS"})
           => store' = store
       /\ store' # store => last'.op = "setSTSForHost"]_vars

\* updateSTSForHost has removed the state of a host from both caches and its
\* store entry is still there.
C13_Witness ==
    /\ last.op = "updateSTSForHost"
    /\ ~last.enforce
    /\ last.host \in DOMAIN store
    /\ last.host \notin DOMAIN pub \cup DOMAIN priv

\* The cache holds a state that includes subdomains for an ancestor of host.
CoveredByCache(cache, host) ==
    \E a \in DOMAIN cache : IsProperSuffix(a, host) /\ cache[a].includeSubdomains

\* C14 as stated: after enableSTSForHost(h, inc) both caches report h as
\* enforced and report sub.h as enforced exactly if inc; after
\* disableSTSForHost(h) neither cache holds a state of h.
C14_SubdomainEnforcedIffFlag ==
    /\ last.op = "enableSTSForHost" =>
          \A cache \in {pub, priv} :
              /\ isSecureHost(cache, last.host)
              /\ isSecureHost(cache, subdomainOf(last.host))
                    <=> last.includeSubdomains
    /\ last.op = "disableSTSForHost" =>
          \A cache \in {pub, priv} : last.host \notin DOMAIN cache

\* C14, amended: after enableSTSForHost(h, inc) both caches hold a state of h
\* with the flag inc and report h as enforced, and they report a subdomain
\* of h as enforced exactly if inc, or the subdomain has a state of its own,
\* or a state of another ancestor of the subdomain includes subdomains;
\* after disableSTSForHost(h) neither cache holds a state of h.
C14_BothCachesFollowDirective ==
    /\ last.op = "enableSTSForHost" =>
          \A cache \in {pub, priv} :
              /\ last.host \in DOMAIN cache
              /\ cache[last.host].includeSubdomains = last.includeSubdomains
              /\ isSecureHost(cache, last.host)
              /\ \A g \in Hosts \cup {subdomainOf(last.host)} :
                    IsProperSuffix(last.host, g) =>
                        (isSecureHost(cache, g)
                            <=> (last.includeSubdomains
                                 \/ CoveredByOther(cache, g, last.host)))
    /\ last.op = "disableSTSForHost" =>
          \A cache \in {pub, priv} : last.host \notin DOMAIN cache

\* enableSTSForHost(h, FALSE) above a subdomain that has a state of its own
\* and below no state that includes subdomains: both caches hold the state
\* of h without the flag and report that subdomain, but not sub.h.
C14_Witness ==
    /\ last.op = "enableSTSForHost"
    /\ ~last.includeSubdomains
    /\ \A cache \in {pub, priv} :
          /\ last.host \in DOMAIN cache
          /\ ~cache[last.host].includeSubdomains
          /\ ~CoveredByCache(cache, last.host)
          /\ ~isSecureHost(cache, subdomainOf(last.host))
          /\ \E g \in Hosts :
                /\ IsProperSuffix(last.host, g)
                /\ g \in DOMAIN cache
                /\ isSecureHost(cache, g)

\* C15: after updateSTSForHost(h, enforce, inc), whatever the caches held
\* for h before, each cache holds a state of h exactly if enforce, and that
\* state includes subdomains exactly if inc.
C15_UpdateResultIgnoresPriorState ==
    last.op = "updateSTSForHost" =>
        \A cache \in {pub, priv} :
            /\ last.host \in DOMAIN cache <=> last.enforce
            /\ last.enforce =>
                  /\ cache[last.host].includeSubdomains = last.includeSubdomains
                  /\ isSecureHost(cache, last.host)
                  /\ last.includeSubdomains
                        => isSecureHost(cache, subdomainOf(last.host))

\* updateSTSForHost(h, TRUE, FALSE) on a host that was enforced with
\* subdomains: the state of h no longer covers sub.h.
C15_Witness ==
    /\ last.op = "updateSTSForHost"
    /\ last.pre = USER_ENFORCED_WITH_SUBDOMAINS
    /\ last.enforce /\ ~last.includeSubdomains
    /\ \A cache \in {pub, priv} :
          /\ last.host \in DOMAIN cache
          /\ ~cache[last.host].includeSubdomains
          /\ ~isSecureHost(cache, subdomainOf(last.host))

\* The last call was toggleSTSEnforcingForHost on a host with status st.
ToggledFrom(st) ==
    /\ last.op = "toggleSTSEnforcingForHost"
    /\ last.pre = st

\* The states of all hosts but h are the same in caches c and d.
SameButFor(c, d, h) ==
    /\ DOMAIN c \ {h} = DOMAIN d \ {h}
    /\ \A g \in DOMAIN c \ {h} : c[g] = d[g]

\* What toggleSTSEnforcingForHost does apart from the subdomains of a newly
\* enforced host.
ToggleEffect ==
    /\ ToggledFrom(NOT_ENFORCED) =>
          /\ last.host \in DOMAIN store
          /\ store[last.host] = TRUE
          /\ SameButFor(store, last.before.store, last.host)
          /\ \A k \in {"persistent", "private"} :
                /\ isSecureHost(sss[k], last.host)
                /\ SameButFor(sss[k], last.before.sss[k], last.host)
    /\ ToggledFrom(USER_ENFORCED) =>
          /\ last.host \notin DOMAIN store
          /\ SameButFor(store, last.before.store, last.host)
          /\ \A k \in {"persistent", "private"} :
                /\ last.host \notin DOMAIN sss[k]
                /\ SameButFor(sss[k], last.before.sss[k], last.host)
    /\ (ToggledFrom(SITE_ENFORCED) \/ ToggledFrom(USER_ENFORCED_PARENT)) =>
          /\ store = last.before.store
          /\ sss = last.before.sss

\* C16 as stated: toggleSTSEnforcingForHost(h) on a NOT_ENFORCED host adds the
\* store entry and enables h in both caches without covering its
\* subdomains; on a USER_ENFORCED host it removes the entry and the states of
\* h; on a SITE_ENFORCED or parent-governed host it changes nothing.
C16_ToggleEnablesWithoutSubdomains ==
    /\ ToggleEffect
    /\ ToggledFrom(NOT_ENFORCED) =>
          \A k \in {"persistent", "private"} :
              ~isSecureHost(sss[k], subdomainOf(last.host))

\* The last two calls toggled the same host, the first one from
\* NOT_ENFORCED.
ToggledTwice ==
    /\ last.op = "toggleSTSEnforcingForHost"
    /\ last.prior.host = last.host
    /\ last.prior.pre = NOT_ENFORCED

\* The store and the caches before the first of the two toggles.
Baseline == last.prior.before

\* C17 as stated: two toggles of a NOT_ENFORCED host give USER_ENFORCED and
\* then NOT_ENFORCED, and leave the store and both caches as they were
\* before the first toggle.
C17_ToggleTwiceRestoresAll ==
    ToggledTwice =>
        /\ last.pre = USER_ENFORCED
        /\ legacy_getSTSStatusForHost(last.host).status = NOT_ENFORCED
        /\ store = Baseline.store
        /\ sss = Baseline.sss

\* Each entry of the store has its state, with its flag, in the private
\* cache.
PrivateCacheHonoursStore ==
    \A h \in DOMAIN store :
        /\ h \in DOMAIN priv
        /\ priv[h].includeSubdomains = store[h].includeSubdomains

\* C18: once the add-on has started, and once the opening of a private
\* window has been handled, every entry of the store is enforced in the
\* private cache with its includeSubdomains flag, even if that cache was
\* emptied before.
C18_PrivateWindowRestoresEnforcement ==
    (last.op = "startup" \/ (last.op = "windowOpened" /\ last.private))
        => PrivateCacheHonoursStore

\* C19: an error of the effective TLD service other than the one that ends
\* the levels of a host, thrown while getEnforcingParentHost walks the
\* parents, reaches the caller.
C19_ServiceErrorsReachCaller ==
    (/\ last.op = "getEnforcingParentHost"
     /\ last.serviceError # ""
     /\ last.serviceError # NS_ERROR_INSUFFICIENT_DOMAIN_LEVELS)
        => last.raised = last.serviceError

\* C20: a setSTSForHost or updateSTSForHost call in which a backend call
\* throws part-way, made when store and backend agreed on the host, raises
\* the error and does not leave an entry of the host in the store while a
\* cache no longer enforces the host.
C20_FailedCallLeavesAgreement ==
    (/\ last.op \in {"setSTSForHost fails", "updateSTSForHost fails"}
     /\ last.agreed)
        => /\ last.raised # ""
           /\ StoreAndBackendAgreeOn(last.host)

\* The operations that take a host and convert it with getURI.
HostOps ==
    {"getSTSStatusForHost", "setSTSForHost", "updateSTSForHost",
     "enableSTSForHost", "disableSTSForHost"}

\* C21: an operation called with a host that getURI cannot convert raises
\* an error and leaves the store and both caches as they were.
C21_UnconvertibleHostRaises ==
    [][(/\ nops' = nops + 1
        /\ last'.op \in HostOps
        /\ getURI(last'.host).malformed)
       => /\ last'.raised # ""
          /\ store' = store
          /\ sss' = sss]_vars

\* C22: getURI(h) is the URI http://h/ for every host h, those whose name
\* begins with "http" included.
C22_GetURIWrapsEveryHost ==
    last.op = "getURI" =>
        /\ last.raised = ""
        /\ last.result = [malformed |-> FALSE, scheme |-> "http",
                          host |-> last.host]

\* C23: for every host and every store, getEnforcingParentHost makes at most
\* as many lookups as the host has labels, and for a host without a
\* registrable ancestor (a public suffix, a registrable domain) it returns
\* null and raises no error.
C23_WalkEndsWithNone ==
    \A h \in Hosts :
        /\ lookupsInWalk(h, 0) <= Len(h)
        /\ RegistrableAncestors(h) = {} =>
              /\ getEnforcingParentHost(h) = null
              /\ raisedByParentWalk(h) = ""

\* C24: updateEnforcementStatus calls setSTSForHost with the checked state
\* of the enforce checkbox as enforce and the checked state of the include
\* subdomains checkbox as includeSubdomains.
C24_CommandPassesBothCheckboxes ==
    last.op = "updateEnforcementStatus" =>
        /\ last.called
        /\ last.args.enforce = last.checked.enforce
        /\ last.args.include = last.checked.include

\* C25: after a refresh for an https page whose host has status
\* USER_ENFORCED, USER_ENFORCED_WITH_SUBDOMAINS or NOT_ENFORCED, whatever
\* refreshes came before, the section and both checkboxes are shown and
\* both checkboxes are enabled.
C25_RefreshResetsCheckboxes ==
    (/\ last.op \in {"refreshIdentityPopup", "updateEnforcementStatus"}
     /\ last.scheme = "https"
     /\ statusOutcome(last.host).status \in
            {USER_ENFORCED, USER_ENFORCED_WITH_SUBDOMAINS, NOT_ENFORCED})
        => /\ ui.section
           /\ ~ui.sectionHidden
           /\ \A id \in CheckboxIds :
                 /\ ~ui.boxes[id].hidden
                 /\ ~ui.boxes[id].disabled

\* C26: from an empty store and empty caches, after any sequence of
\* setSTSForHost and ensureSTS calls, no host has status SITE_ENFORCED.
C26_UserPolicyNeverLooksSiteDeclared ==
    hist \subseteq {"setSTSForHost", "ensureSTS"} =>
        \A h \in Hosts : getSTSStatusForHost(h) # SITE_ENFORCED

\* C27: after any sequence of setSTSForHost calls, every host whose status
\* is USER_ENFORCED, USER_ENFORCED_WITH_SUBDOMAINS, USER_ENFORCED_PARENT or
\* SITE_ENFORCED is reported as enforced by the persistent cache.
C27_EnforcedStatusMeansEnforced ==
    hist \subseteq {"setSTSForHost"} =>
        \A h \in Hosts :
            getSTSStatusForHost(h) # NOT_ENFORCED => isSecureHost(pub, h)

====
